---------------------------- MODULE Spec2Model ----------------------------
(***************************************************************************)
(* A model of the signalling core of the SFU: the Session / Endpoint /     *)
(* Transport identity model (src/server/session/mod.rs) and the SDP        *)
(* negotiation engine (src/server/session/description/mod.rs).             *)
(*                                                                         *)
(* Conventions.  A Rust String is a sequence of tokens (a token is a TLA+  *)
(* string), so that concatenation is \o and the empty string is << >>.     *)
(* An Option<T> is a sequence of length at most one: None is << >> and     *)
(* Some(x) is << x >>.  A Result is a record with an err field, the empty  *)
(* string standing for Ok.                                                 *)
(***************************************************************************)
EXTENDS Integers, Sequences, FiniteSets, TLC

VARIABLES
    endpoints,          \* Session.endpoints: EndpointId -> Option<handle of an Endpoint>
    heap,               \* the Endpoint objects ever allocated, by handle
    ep_ret,             \* what the last add_endpoint / get_endpoint call returned
    ep_passed,          \* history: the (EndpointId, four-tuple) pairs passed to add_endpoint
    origin,             \* the stored sdp Origin update_sdp_origin works on
    origin_ret,         \* history of the last update_sdp_origin call
    origin_calls,       \* history: number of update_sdp_origin calls on `origin`
    dir_a,              \* direction algebra: first operand
    dir_b,              \* direction algebra: second operand
    dir_ret,            \* direction algebra: the last operation and its result
    certificates,       \* Session.certificates
    local_transceivers, \* the caller's transceivers (senders hold the negotiated flag)
    sdp_ret,            \* what the last generate_matched_sdp / populate_sdp call returned
    transceiver,        \* section builder: the transceiver being renegotiated
    section_ret,        \* what the last add_transceiver_sdp call returned
    msid_latch,         \* history: the track id of the first msid lines ever emitted
    answers,            \* history: the o= origins of the successive successful answers
    cand,               \* candidates: the media description worked on and the calls so far
    reg                 \* interceptor Registry: its builders, the stage built, the last call

epVars == << endpoints, heap, ep_ret, ep_passed >>
originVars == << origin, origin_ret, origin_calls >>
dirVars == << dir_a, dir_b, dir_ret >>
sdpVars == << certificates, local_transceivers, sdp_ret >>
sectionVars == << transceiver, section_ret, msid_latch >>
answerVars == << answers >>
candVars == << cand >>
regVars == << reg >>
notEp == << originVars, dirVars, sdpVars, sectionVars, answerVars, candVars, regVars >>
notOrigin == << epVars, dirVars, sdpVars, sectionVars, answerVars, candVars, regVars >>
notDir == << epVars, originVars, sdpVars, sectionVars, answerVars, candVars, regVars >>
notSdp == << epVars, originVars, dirVars, sectionVars, answerVars, candVars, regVars >>
notSection == << epVars, originVars, dirVars, sdpVars, answerVars, candVars, regVars >>
notAnswer == << epVars, originVars, dirVars, sectionVars, candVars, regVars >>
notCand == << epVars, originVars, dirVars, sdpVars, sectionVars, answerVars, regVars >>
notReg == << epVars, originVars, dirVars, sdpVars, sectionVars, answerVars, candVars >>
vars == << endpoints, heap, ep_ret, ep_passed, origin, origin_ret, origin_calls,
           dir_a, dir_b, dir_ret, certificates, local_transceivers, sdp_ret,
           transceiver, section_ret, msid_latch, answers, cand, reg >>

(***************************************************************************)
(* Bounds of the model.                                                    *)
(***************************************************************************)
MaxEndpointCalls == 4
MaxOriginCalls == 3
MaxSessionVersion == 3
MaxRemoteMedia == 2
MaxTransceivers == 2
MaxSections == 2
MaxAnswers == 3
MaxCandidateCalls == 3
MaxInitialAttributes == 2
MaxBuilders == 3

(***************************************************************************)
(* Option and string helpers.                                              *)
(***************************************************************************)
None == << >>
Some(x) == << x >>
IsSome(o) == Len(o) > 0
IsNone(o) == Len(o) = 0
Unwrap(o) == o[1]

Str(tok) == << tok >>
EmptyString == << >>

Range(s) == { s[i] : i \in 1..Len(s) }

\* format!("{}", n) for the small numbers the model reaches
Decimal(n) == Str(<< "0", "1", "2", "3", "4", "5", "6", "7", "8", "9" >>[n + 1])

(***************************************************************************)
(* 4.1 Direction algebra (rtp_transceiver_direction).                      *)
(***************************************************************************)
Unspecified == "Unspecified"
Sendrecv == "Sendrecv"
Sendonly == "Sendonly"
Recvonly == "Recvonly"
Inactive == "Inactive"
Direction == { Unspecified, Sendrecv, Sendonly, Recvonly, Inactive }
NamedDirection == { Sendrecv, Sendonly, Recvonly, Inactive }

DirectionToString(d) ==
    CASE d = Sendrecv -> Str("sendrecv")
      [] d = Sendonly -> Str("sendonly")
      [] d = Recvonly -> Str("recvonly")
      [] d = Inactive -> Str("inactive")
      [] OTHER -> Str("Unspecified")

DirectionFromString(s) ==
    CASE s = Str("sendrecv") -> Sendrecv
      [] s = Str("sendonly") -> Sendonly
      [] s = Str("recvonly") -> Recvonly
      [] s = Str("inactive") -> Inactive
      [] OTHER -> Unspecified

has_send(d) == d \in { Sendrecv, Sendonly }

has_recv(d) == d \in { Sendrecv, Recvonly }

from_send_recv(send, recv) ==
    CASE send /\ recv -> Sendrecv
      [] send /\ ~recv -> Sendonly
      [] ~send /\ recv -> Recvonly
      [] OTHER -> Inactive

reverse(d) ==
    CASE d = Sendonly -> Recvonly
      [] d = Recvonly -> Sendonly
      [] OTHER -> d

\* a plausible slip: the union of the capabilities instead of their intersection
intersect_union(a, b) ==
    from_send_recv(has_send(a) \/ has_send(b), has_recv(a) \/ has_recv(b))

intersect(a, b) ==
    from_send_recv(has_send(a) /\ has_send(b), has_recv(a) /\ has_recv(b))

\* Specification SpecDirection: the operands are drawn in Init, the actions
\* apply the operations of the algebra to them.
DirectionIntersect ==
    /\ dir_ret' = [op |-> "intersect", a |-> dir_a, b |-> dir_b,
                   out |-> intersect(dir_a, dir_b)]
    /\ UNCHANGED << dir_a, dir_b, notDir >>

DirectionReverse ==
    /\ dir_ret' = [op |-> "reverse", a |-> dir_a, b |-> dir_b, out |-> reverse(dir_a)]
    /\ UNCHANGED << dir_a, dir_b, notDir >>

DirectionFromSendRecv ==
    /\ dir_ret' = [op |-> "from_send_recv", a |-> dir_a, b |-> dir_b,
                   out |-> from_send_recv(has_send(dir_a), has_recv(dir_b))]
    /\ UNCHANGED << dir_a, dir_b, notDir >>

DirectionRoundTrip ==
    /\ dir_ret' = [op |-> "from_string", a |-> dir_a, b |-> dir_b,
                   out |-> DirectionFromString(DirectionToString(dir_a))]
    /\ UNCHANGED << dir_a, dir_b, notDir >>

NoDirRet == [op |-> "none", a |-> Unspecified, b |-> Unspecified, out |-> Unspecified]

(***************************************************************************)
(* 4.2 Identity and topology: Session.add_endpoint / get_endpoint.         *)
(***************************************************************************)
EndpointId == { "e1", "e2" }
FourTuple == { "path1", "path2" }

\* Endpoint::new(session, endpoint_id): no transport yet
EndpointNew(endpoint_id) == [endpoint_id |-> endpoint_id, transports |-> {}]

\* Endpoint::get_transport(&four_tuple)
EndpointGetTransport(endpoint, four_tuple) ==
    IF four_tuple \in endpoint.transports THEN Some(four_tuple) ELSE None

\* Endpoint::add_transport(transport)
EndpointAddTransport(endpoint, four_tuple) ==
    [endpoint EXCEPT !.transports = @ \cup { four_tuple }]

\* Session::get_endpoint: a lookup in the endpoint mapping
get_endpoint(endpoint_id) == endpoints[endpoint_id]

\* history: an earlier add_endpoint call was made for this EndpointId
KnownId(endpoint_id) == \E p \in ep_passed : p[1] = endpoint_id

\* Session::add_endpoint.  The bool of the result is "the endpoint existed".
\* The fresh Endpoint of the last branch is returned to the caller and is not
\* inserted into Session.endpoints.
AddEndpoint(endpoint_id, four_tuple) ==
    /\ Len(heap) < MaxEndpointCalls
    /\ LET endpoint == get_endpoint(endpoint_id) IN
       IF IsSome(endpoint)
       THEN LET h == Unwrap(endpoint) IN
            IF IsSome(EndpointGetTransport(heap[h], four_tuple))
            THEN /\ heap' = heap
                 /\ ep_ret' = [op |-> "add_endpoint", existing |-> TRUE, endpoint |-> h,
                               endpoint_id |-> endpoint_id, transport |-> four_tuple,
                               known_id |-> KnownId(endpoint_id)]
            ELSE /\ heap' = [heap EXCEPT ![h] = EndpointAddTransport(@, four_tuple)]
                 /\ ep_ret' = [op |-> "add_endpoint", existing |-> TRUE, endpoint |-> h,
                               endpoint_id |-> endpoint_id, transport |-> four_tuple,
                               known_id |-> KnownId(endpoint_id)]
       ELSE /\ heap' = Append(heap,
                              EndpointAddTransport(EndpointNew(endpoint_id), four_tuple))
            /\ ep_ret' = [op |-> "add_endpoint", existing |-> FALSE,
                          endpoint |-> Len(heap) + 1,
                          endpoint_id |-> endpoint_id, transport |-> four_tuple,
                          known_id |-> KnownId(endpoint_id)]
    /\ ep_passed' = ep_passed \cup { << endpoint_id, four_tuple >> }
    /\ UNCHANGED << endpoints, notEp >>

NoEpRet == [op |-> "none", existing |-> FALSE, endpoint |-> 0,
            endpoint_id |-> "e1", transport |-> "path1", known_id |-> FALSE]

(***************************************************************************)
(* 4.5 update_sdp_origin.                                                  *)
(***************************************************************************)
SessionIdOf == { 7, 8 }

\* Origin::default()
OriginDefault == [session_id |-> 0, session_version |-> 0]

\* a plausible slip: every call seeds the stored origin
update_sdp_origin_always_seed(o, d) ==
    [origin |-> [session_version |-> d.session_version, session_id |-> d.session_id],
     d |-> d]

\* update_sdp_origin(origin, d): the pair (origin', d.origin') it leaves
update_sdp_origin(o, d) ==
    IF o.session_version = 0
    THEN [origin |-> [session_version |-> d.session_version,
                      session_id |-> d.session_id],
          d |-> d]
    ELSE [origin |-> [o EXCEPT !.session_version = @ + 1],
          d |-> [session_id |-> o.session_id,
                 session_version |-> d.session_version + 1]]

UpdateSdpOrigin(d) ==
    /\ origin_calls < MaxOriginCalls
    /\ LET r == update_sdp_origin(origin, d) IN
       /\ origin' = r.origin
       /\ origin_ret' = [before |-> origin, d_in |-> d, d_out |-> r.d]
    /\ origin_calls' = origin_calls + 1
    /\ UNCHANGED notOrigin

NoOriginRet == [before |-> OriginDefault, d_in |-> OriginDefault, d_out |-> OriginDefault]

(***************************************************************************)
(* The sdp crate's descriptions, as far as this code builds and reads them.*)
(* A builder call with_x(..) of the crate appends attributes; the model    *)
(* writes the attributes a run of such calls appends as one sequence.      *)
(***************************************************************************)
Min(S) == CHOOSE x \in S : \A y \in S : x <= y

\* the attribute with_value_attribute(key, value) appends
ValueAttribute(key, value) == [key |-> key, value |-> Some(value)]

\* the attribute with_property_attribute(key) appends
PropertyAttribute(key) == [key |-> key, value |-> None]

\* the attributes with_ice_credentials(username, password) appends
IceCredentialAttributes(username, password) ==
    << ValueAttribute(Str("ice-ufrag"), username), ValueAttribute(Str("ice-pwd"), password) >>

\* String::to_uppercase, on the fingerprint values of the model
to_uppercase(s) ==
    [i \in 1..Len(s) |-> CASE s[i] = "ab:cd" -> "AB:CD"
                           [] s[i] = "ef:01" -> "EF:01"
                           [] OTHER -> s[i]]

\* for f in dtls_fingerprints { with_fingerprint(f.algorithm, f.value.to_uppercase()) }
FingerprintAttributes(dtls_fingerprints) ==
    [i \in 1..Len(dtls_fingerprints) |->
        ValueAttribute(Str("fingerprint"),
                       dtls_fingerprints[i].algorithm \o Str(" ")
                           \o to_uppercase(dtls_fingerprints[i].value))]

\* with_media(md)
with_media(d, md) == [d EXCEPT !.media_descriptions = Append(@, md)]

ConnectionInformationAny ==
    Some([network_type |-> Str("IN"), address_type |-> Str("IP4"),
          address |-> Some([address |-> Str("0.0.0.0")])])

ProtosRtp == << Str("UDP"), Str("TLS"), Str("RTP"), Str("SAVPF") >>

\* SessionDescription::new_jsep_session_description(identity); the session id
\* and version of the o= line are the caller's draw
new_jsep_session_description(identity, o) ==
    [origin |-> o,
     attributes |-> IF identity THEN << PropertyAttribute(Str("identity")) >> ELSE << >>,
     media_descriptions |-> << >>]

\* the attributes with_media_source(ssrc, cname, stream_label, label) appends
MediaSourceAttributes(ssrc, cname, stream_label, label) ==
    << ValueAttribute(Str("ssrc"), ssrc \o Str(" cname:") \o cname),
       ValueAttribute(Str("ssrc"), ssrc \o Str(" msid:") \o stream_label \o Str(" ") \o label),
       ValueAttribute(Str("ssrc"), ssrc \o Str(" mslabel:") \o stream_label),
       ValueAttribute(Str("ssrc"), ssrc \o Str(" label:") \o label) >>

RECURSIVE Flatten(_)
Flatten(seqs) == IF seqs = << >> THEN << >> ELSE Head(seqs) \o Flatten(Tail(seqs))

(***************************************************************************)
(* RTPCodecType (rtp_codec).                                               *)
(***************************************************************************)
Audio == "Audio"
Video == "Video"

RTPCodecTypeFrom(s) ==
    CASE s = Str("audio") -> Audio
      [] s = Str("video") -> Video
      [] OTHER -> Unspecified

RTPCodecTypeToString(k) ==
    CASE k = Audio -> Str("audio")
      [] k = Video -> Str("video")
      [] OTHER -> Str("Unspecified")

(***************************************************************************)
(* description/mod.rs: readers of a remote media description.              *)
(***************************************************************************)
MEDIA_SECTION_APPLICATION == Str("application")
SDP_ATTRIBUTE_RID == Str("rid")

get_mid_value(media) ==
    LET hits == { i \in 1..Len(media.attributes) : media.attributes[i].key = Str("mid") }
    IN IF hits = {} THEN None ELSE media.attributes[Min(hits)].value

get_peer_direction(media) ==
    LET hits == { i \in 1..Len(media.attributes) :
                    DirectionFromString(media.attributes[i].key) # Unspecified }
    IN IF hits = {} THEN Unspecified
       ELSE DirectionFromString(media.attributes[Min(hits)].key)

\* value.split(' ')[0]
SplitFirst(value) ==
    LET spaces == { i \in 1..Len(value) : value[i] = " " }
    IN IF spaces = {} THEN value ELSE SubSeq(value, 1, Min(spaces) - 1)

\* the HashMap rid -> raw value; a later attribute of the same rid overwrites
get_rids(media) ==
    LET hits == { i \in 1..Len(media.attributes) :
                    /\ media.attributes[i].key = SDP_ATTRIBUTE_RID
                    /\ IsSome(media.attributes[i].value) }
        rids == { SplitFirst(Unwrap(media.attributes[i].value)) : i \in hits }
    IN [r \in rids |->
          LET last == CHOOSE i \in hits :
                        /\ SplitFirst(Unwrap(media.attributes[i].value)) = r
                        /\ \A j \in hits :
                             SplitFirst(Unwrap(media.attributes[j].value)) = r => j <= i
          IN Unwrap(media.attributes[last].value)]

\* MediaSection { id, ..Default::default() }; a transceiver reference is the
\* index of the transceiver in the caller's slice
MediaSectionDefault(id) ==
    [id |-> id, transceiver |-> None, data |-> FALSE,
     rid_map |-> << >>, offered_direction |-> None]

Complete == "Complete"
Gathering == "Gathering"

(***************************************************************************)
(* add_candidate_to_media_descriptions.                                    *)
(***************************************************************************)
\* format!("1 {} UDP 1 {} {} typ host", component, c.ip(), c.port())
CandidateMarshaled(c, component) ==
    << "1", " ", component, " ", "UDP", " ", "1", " " >> \o c.ip \o Str(" ") \o c.port
        \o << " ", "typ", " ", "host" >>

\* a plausible slip: the candidate line is appended without the search
append_candidate_always(c, component, attributes) ==
    Append(attributes, ValueAttribute(Str("candidate"), CandidateMarshaled(c, component)))

\* the closure append_candidate_if_new, on the attributes of m
append_candidate_if_new(c, component, attributes) ==
    IF \E i \in 1..Len(attributes) :
          /\ IsSome(attributes[i].value)
          /\ Unwrap(attributes[i].value) = CandidateMarshaled(c, component)
    THEN attributes
    ELSE Append(attributes, ValueAttribute(Str("candidate"), CandidateMarshaled(c, component)))

\* lines 187-196, on the attributes of m
append_end_of_candidates(attributes, ice_gathering_state) ==
    IF ice_gathering_state # Complete THEN attributes
    ELSE IF \E i \in 1..Len(attributes) : attributes[i].key = Str("end-of-candidates")
    THEN attributes
    ELSE Append(attributes, PropertyAttribute(Str("end-of-candidates")))

\* add_candidate_to_media_descriptions: always Ok; only m.attributes changes
add_candidate_to_media_descriptions(candidate, m, ice_gathering_state) ==
    [m EXCEPT !.attributes =
        append_end_of_candidates(
            append_candidate_if_new(candidate, "2",
                append_candidate_if_new(candidate, "1", @)),
            ice_gathering_state)]

(***************************************************************************)
(* 4.4 Section builder.                                                    *)
(***************************************************************************)
Ok == ""

\* add_data_media_section: always Ok
add_data_media_section(d, dtls_fingerprints, candidate, params) ==
    LET media == [media_name |-> [media |-> MEDIA_SECTION_APPLICATION, port |-> 9,
                                  protos |-> << Str("UDP"), Str("DTLS"), Str("SCTP") >>,
                                  formats |-> << Str("webrtc-datachannel") >>],
                  connection_information |-> ConnectionInformationAny,
                  attributes |->
                      << ValueAttribute(Str("setup"), params.dtls_role),
                         ValueAttribute(Str("mid"), params.mid_value),
                         PropertyAttribute(DirectionToString(Sendrecv)),
                         ValueAttribute(Str("sctp-port"), Str("5000")),
                         ValueAttribute(Str("max-message-size"), Str("262144")) >>
                        \o IceCredentialAttributes(params.ice_params.username_fragment,
                                                   params.ice_params.password)
                        \o FingerprintAttributes(dtls_fingerprints)]
    IN [err |-> Ok,
        d |-> with_media(d, IF params.should_add_candidates
                            THEN add_candidate_to_media_descriptions(
                                     candidate, media, params.ice_gathering_state)
                            ELSE media)]

\* trim_start_matches: strips every leading occurrence of the prefix
RECURSIVE trim_start_matches(_, _)
trim_start_matches(s, prefix) ==
    IF Len(s) > 0 /\ s[1] = prefix THEN trim_start_matches(Tail(s), prefix) ELSE s

\* lines 301-306: the codec name
CodecName(codec) ==
    trim_start_matches(trim_start_matches(codec.capability.mime_type, "audio/"), "video/")

\* lines 307-323: the attributes with_codec(..) appends for one codec (rtpmap,
\* with the channels when there are any, and fmtp when the fmtp line is not
\* empty), then its rtcp-fb attributes
CodecAttributes(codec) ==
    << ValueAttribute(Str("rtpmap"),
                      codec.payload_type \o Str(" ") \o CodecName(codec) \o Str("/")
                          \o codec.capability.clock_rate
                          \o (IF codec.capability.channels = Str("0") THEN << >>
                              ELSE Str("/") \o codec.capability.channels)) >>
      \o (IF codec.capability.sdp_fmtp_line = EmptyString THEN << >>
          ELSE << ValueAttribute(Str("fmtp"),
                      codec.payload_type \o Str(" ") \o codec.capability.sdp_fmtp_line) >>)
      \o [i \in 1..Len(codec.capability.rtcp_feedback) |->
            ValueAttribute(Str("rtcp-fb"),
                codec.payload_type \o Str(" ")
                    \o codec.capability.rtcp_feedback[i].typ \o Str(" ")
                    \o codec.capability.rtcp_feedback[i].parameter)]

\* lines 300-324
CodecsAttributes(codecs) == Flatten([i \in 1..Len(codecs) |-> CodecAttributes(codecs[i])])

\* the formats with_codec(..) appends
CodecsFormats(codecs) == [i \in 1..Len(codecs) |-> codecs[i].payload_type]

\* a plausible slip: the rejected block keeps the port of a jsep media description
RejectedMediaDefaultPort(kind) ==
    [media_name |-> [media |-> RTPCodecTypeToString(kind), port |-> 9,
                     protos |-> ProtosRtp, formats |-> << Str("0") >>],
     connection_information |-> ConnectionInformationAny,
     attributes |-> << >>]

\* lines 332-364: the rejected media block
RejectedMedia(kind) ==
    [media_name |-> [media |-> RTPCodecTypeToString(kind), port |-> 0,
                     protos |-> ProtosRtp, formats |-> << Str("0") >>],
     connection_information |-> ConnectionInformationAny,
     attributes |-> << >>]

\* an enumeration of the keys of the rid HashMap (the inputs of the model hold
\* at most one rid, so that the iteration order is immaterial)
KeysInOrder(f) ==
    CHOOSE q \in [1..Cardinality(DOMAIN f) -> DOMAIN f] : Range(q) = DOMAIN f

RECURSIVE JoinFrom(_, _, _)
JoinFrom(strs, sep, i) ==
    IF i > Len(strs) THEN EmptyString
    ELSE IF i = Len(strs) THEN strs[i]
    ELSE strs[i] \o sep \o JoinFrom(strs, sep, i + 1)

Join(strs, sep) == JoinFrom(strs, sep, 1)

\* lines 378-391: the rid attributes and the simulcast attribute
RidAttributes(rid_map) ==
    IF DOMAIN rid_map = {} THEN << >>
    ELSE [i \in 1..Cardinality(DOMAIN rid_map) |->
             ValueAttribute(SDP_ATTRIBUTE_RID, KeysInOrder(rid_map)[i] \o Str(" recv"))]
           \o << ValueAttribute(Str("simulcast"),
                                Str("recv ") \o Join(KeysInOrder(rid_map), Str(";"))) >>

\* format!("msid:{} {}", stream_id, track_id), one property attribute per stream
MsidAttributes(stream_ids, track_id) ==
    [i \in 1..Len(stream_ids) |->
        PropertyAttribute(Str("msid:") \o stream_ids[i] \o Str(" ") \o track_id)]

\* lines 393-429.  The store of sender.initial_track_id is a TODO of the source
\* (line 410): a build leaves the sender as it found it.
TrackAttributes(sender) ==
    (IF IsSome(sender.track)
     THEN MediaSourceAttributes(sender.ssrc, Unwrap(sender.track).stream_id,
                                Unwrap(sender.track).stream_id, Unwrap(sender.track).id)
            \o (IF IsNone(sender.initial_track_id)
                THEN MsidAttributes(sender.associated_media_stream_ids,
                                    Unwrap(sender.track).id)
                ELSE << >>)
     ELSE << >>)
      \o (IF IsSome(sender.initial_track_id)
          THEN MsidAttributes(sender.associated_media_stream_ids,
                              Unwrap(sender.initial_track_id))
          ELSE << >>)

\* a plausible slip: the offered direction is intersected without being reversed
resolve_direction_no_reverse(offered_direction, transceiver_direction) ==
    IF IsSome(offered_direction)
    THEN CASE Unwrap(offered_direction) \in { Sendonly, Recvonly } ->
                  intersect(Unwrap(offered_direction), transceiver_direction)
           [] Unwrap(offered_direction) \in { Sendrecv, Unspecified } -> transceiver_direction
           [] OTHER -> Inactive
    ELSE transceiver_direction

\* a plausible slip: an offered Inactive falls through to the transceiver's
\* own direction
resolve_direction_inactive_passthrough(offered_direction, transceiver_direction) ==
    IF IsSome(offered_direction)
    THEN CASE Unwrap(offered_direction) \in { Sendonly, Recvonly } ->
                  intersect(reverse(Unwrap(offered_direction)), transceiver_direction)
           [] OTHER -> transceiver_direction
    ELSE transceiver_direction

\* lines 431-468: the direction of the emitted attribute
resolve_direction(offered_direction, transceiver_direction) ==
    IF IsSome(offered_direction)
    THEN CASE Unwrap(offered_direction) \in { Sendonly, Recvonly } ->
                  intersect(reverse(Unwrap(offered_direction)), transceiver_direction)
           [] Unwrap(offered_direction) \in { Sendrecv, Unspecified } -> transceiver_direction
           [] OTHER -> Inactive
    ELSE transceiver_direction

\* the media block of a transceiver with codecs, before the candidates.
\* MediaDescription::new_jsep_media_description(kind, vec![]) gives port 9 and
\* UDP/TLS/RTP/SAVPF; RTCRtpParameters::default() holds no header extension, so
\* that the loop of lines 369-376 adds nothing.
TransceiverMedia(t, dtls_fingerprints, ice_params, media_section, params) ==
    [media_name |-> [media |-> RTPCodecTypeToString(t.kind), port |-> 9,
                     protos |-> ProtosRtp, formats |-> CodecsFormats(t.codecs)],
     connection_information |-> ConnectionInformationAny,
     attributes |->
         << ValueAttribute(Str("setup"), params.dtls_role),
            ValueAttribute(Str("mid"), params.mid_value) >>
           \o IceCredentialAttributes(ice_params.username_fragment, ice_params.password)
           \o << PropertyAttribute(Str("rtcp-mux")), PropertyAttribute(Str("rtcp-rsize")) >>
           \o CodecsAttributes(t.codecs)
           \o RidAttributes(media_section.rid_map)
           \o TrackAttributes(t.sender)
           \o << PropertyAttribute(DirectionToString(
                     resolve_direction(params.offered_direction, t.direction))) >>
           \o FingerprintAttributes(dtls_fingerprints)]

\* add_transceiver_sdp
add_transceiver_sdp(d, dtls_fingerprints, ice_params, candidate, ts, media_section, params) ==
    IF IsNone(media_section.transceiver)
    THEN [err |-> "ErrSDPZeroTransceivers", d |-> d, should_add_id |-> FALSE]
    ELSE IF ts[Unwrap(media_section.transceiver)].codecs = << >>
    THEN IF IsSome(ts[Unwrap(media_section.transceiver)].sender.track)
         THEN [err |-> "ErrSenderWithNoCodecs", d |-> d, should_add_id |-> FALSE]
         ELSE [err |-> Ok,
               d |-> with_media(d, RejectedMedia(ts[Unwrap(media_section.transceiver)].kind)),
               should_add_id |-> FALSE]
    ELSE [err |-> Ok,
          d |-> with_media(d,
                  IF params.should_add_candidates
                  THEN add_candidate_to_media_descriptions(candidate,
                           TransceiverMedia(ts[Unwrap(media_section.transceiver)],
                                            dtls_fingerprints, ice_params, media_section,
                                            params),
                           params.ice_gathering_state)
                  ELSE TransceiverMedia(ts[Unwrap(media_section.transceiver)],
                                        dtls_fingerprints, ice_params, media_section, params)),
          should_add_id |-> TRUE]

(***************************************************************************)
(* 4.5 Description assembler: populate_sdp.                                *)
(***************************************************************************)
\* a plausible slip: the mid is put in front of the group instead of behind it
append_bundle_front(mid_value, value) ==
    << value[1] >> \o Str(" ") \o mid_value \o Tail(value)

\* the closure of lines 503-506 (the count it keeps is never read)
append_bundle(mid_value, value) == value \o Str(" ") \o mid_value

\* a plausible slip: candidates are added to every section
should_add_candidates_always(i) == TRUE

\* line 515; the enumeration of the source counts from 0
should_add_candidates_at(i) == i = 0

\* one turn of the loop of lines 508-550 on the section of index i (from 0);
\* acc holds d, bundle_value and the error that ended the loop, if any
populate_section(acc, i, m, dtls_fingerprints, candidate, ice_params, connection_role, ts) ==
    IF acc.err # Ok THEN acc
    ELSE IF m.data /\ IsSome(m.transceiver)
    THEN [acc EXCEPT !.err = "ErrSDPMediaSectionMediaDataChanInvalid"]
    ELSE IF m.data
    THEN LET r == add_data_media_section(acc.d, dtls_fingerprints, candidate,
                      [should_add_candidates |-> should_add_candidates_at(i),
                       mid_value |-> m.id, ice_params |-> ice_params,
                       dtls_role |-> connection_role,
                       ice_gathering_state |-> Complete])
         IN [err |-> r.err, d |-> r.d,
             bundle_value |-> append_bundle(m.id, acc.bundle_value)]
    ELSE LET r == add_transceiver_sdp(acc.d, dtls_fingerprints, ice_params, candidate, ts, m,
                      [should_add_candidates |-> should_add_candidates_at(i),
                       mid_value |-> m.id, dtls_role |-> connection_role,
                       ice_gathering_state |-> Complete,
                       offered_direction |-> m.offered_direction])
         IN IF r.err # Ok THEN [acc EXCEPT !.err = r.err]
            ELSE [err |-> Ok, d |-> r.d,
                  bundle_value |-> IF r.should_add_id
                                   THEN append_bundle(m.id, acc.bundle_value)
                                   ELSE acc.bundle_value]

\* the loop of lines 508-550, from the section of index i on
RECURSIVE populate_sections_from(_, _, _, _, _, _, _, _)
populate_sections_from(acc, i, media_sections, dtls_fingerprints, candidate, ice_params, connection_role, ts) ==
    IF i >= Len(media_sections) THEN acc
    ELSE populate_sections_from(
             populate_section(acc, i, media_sections[i + 1], dtls_fingerprints, candidate,
                              ice_params, connection_role, ts),
             i + 1, media_sections, dtls_fingerprints, candidate, ice_params,
             connection_role, ts)

\* a plausible slip: the media sections get the fingerprints in both modes
media_dtls_fingerprints_always(dtls_fingerprints, media_description_fingerprint) ==
    dtls_fingerprints

\* lines 495-499: the fingerprints handed to the section builders
media_dtls_fingerprints(dtls_fingerprints, media_description_fingerprint) ==
    IF media_description_fingerprint THEN dtls_fingerprints ELSE << >>

\* a plausible slip: the ice-lite attribute is left out
with_ice_lite_dropped(attributes) == attributes

\* line 563: d.with_property_attribute(ATTR_KEY_ICELITE), on the attributes of d
with_ice_lite(attributes) == Append(attributes, PropertyAttribute(Str("ice-lite")))

\* populate_sdp: Err(e) is [err |-> e, d |-> None], Ok(d) is [err |-> Ok, d |-> Some(d)]
populate_sdp(d, dtls_fingerprints, candidate, ice_params, connection_role, ts, media_sections, media_description_fingerprint) ==
    LET after == populate_sections_from(
                     [err |-> Ok, d |-> d, bundle_value |-> Str("BUNDLE")], 0,
                     media_sections,
                     media_dtls_fingerprints(dtls_fingerprints, media_description_fingerprint),
                     candidate, ice_params, connection_role, ts)
    IN IF after.err # Ok THEN [err |-> after.err, d |-> None]
       ELSE [err |-> Ok,
             d |-> Some([after.d EXCEPT !.attributes =
                           with_ice_lite(@ \o (IF ~media_description_fingerprint
                                               THEN FingerprintAttributes(dtls_fingerprints)
                                               ELSE << >>))
                             \o << ValueAttribute(Str("group"), after.bundle_value) >>])]

(***************************************************************************)
(* 4.3 Media section matcher: Session.generate_matched_sdp.                *)
(***************************************************************************)
\* RTCRtpSender::set_negotiated, on the transceiver of index i
set_negotiated(ts, i) == [ts EXCEPT ![i].sender.negotiated = TRUE]

\* local_transceivers.iter().find(|t| &t.mid == mid_value): the first match
find_transceiver(ts, mid_value) ==
    LET hits == { i \in 1..Len(ts) : ts[i].mid = mid_value }
    IN IF hits = {} THEN None ELSE Some(Min(hits))

\* a plausible slip: a section without a local counterpart is skipped silently
match_media_skip_unmatched(acc, media, include_unmatched) ==
    IF acc.err # Ok THEN acc
    ELSE LET mid == get_mid_value(media) IN
    IF IsNone(mid) THEN acc
    ELSE IF Unwrap(mid) = EmptyString
    THEN [acc EXCEPT !.err = "ErrPeerConnRemoteDescriptionWithoutMidValue"]
    ELSE IF media.media_name.media = MEDIA_SECTION_APPLICATION
    THEN [acc EXCEPT !.media_sections =
                         Append(@, [MediaSectionDefault(Unwrap(mid)) EXCEPT !.data = TRUE]),
                     !.already_have_application_media_section = TRUE]
    ELSE LET kind == RTPCodecTypeFrom(media.media_name.media)
             direction == get_peer_direction(media)
             found == find_transceiver(acc.ts, Unwrap(mid))
         IN IF kind = Unspecified \/ direction = Unspecified \/ IsNone(found) THEN acc
            ELSE [acc EXCEPT
                    !.ts = set_negotiated(@, Unwrap(found)),
                    !.matched = @ \cup { acc.ts[Unwrap(found)].mid },
                    !.media_sections = Append(@,
                        [id |-> Unwrap(mid), transceiver |-> found, data |-> FALSE,
                         rid_map |-> get_rids(media),
                         offered_direction |->
                             IF ~include_unmatched THEN Some(direction) ELSE None])]

\* one turn of the loop of lines 138-180 on one remote media description
match_media(acc, media, include_unmatched) ==
    IF acc.err # Ok THEN acc
    ELSE LET mid == get_mid_value(media) IN
    IF IsNone(mid) THEN acc
    ELSE IF Unwrap(mid) = EmptyString
    THEN [acc EXCEPT !.err = "ErrPeerConnRemoteDescriptionWithoutMidValue"]
    ELSE IF media.media_name.media = MEDIA_SECTION_APPLICATION
    THEN [acc EXCEPT !.media_sections =
                         Append(@, [MediaSectionDefault(Unwrap(mid)) EXCEPT !.data = TRUE]),
                     !.already_have_application_media_section = TRUE]
    ELSE LET kind == RTPCodecTypeFrom(media.media_name.media)
             direction == get_peer_direction(media)
         IN IF kind = Unspecified \/ direction = Unspecified THEN acc
            ELSE LET found == find_transceiver(acc.ts, Unwrap(mid)) IN
                 IF IsNone(found)
                 THEN [acc EXCEPT !.err = "ErrPeerConnTransceiverMidNil"]
                 ELSE [acc EXCEPT
                         !.ts = set_negotiated(@, Unwrap(found)),
                         !.matched = @ \cup { acc.ts[Unwrap(found)].mid },
                         !.media_sections = Append(@,
                             [id |-> Unwrap(mid), transceiver |-> found, data |-> FALSE,
                              rid_map |-> get_rids(media),
                              offered_direction |->
                                  IF ~include_unmatched THEN Some(direction) ELSE None])]

\* a plausible slip: the unmatched transceivers are put in front of the sections
append_unmatched_front(acc, i) ==
    IF acc.ts[i].mid \in acc.matched THEN acc
    ELSE [acc EXCEPT
            !.ts = set_negotiated(@, i),
            !.media_sections =
                << [MediaSectionDefault(acc.ts[i].mid) EXCEPT !.transceiver = Some(i)] >>
                    \o @]

\* a plausible slip: the section is appended and the sender left unmarked
append_unmatched_unmarked(acc, i) ==
    IF acc.ts[i].mid \in acc.matched THEN acc
    ELSE [acc EXCEPT
            !.media_sections =
                Append(@, [MediaSectionDefault(acc.ts[i].mid) EXCEPT
                             !.transceiver = Some(i)])]

\* one turn of the loop of lines 185-194 on the local transceiver of index i
append_unmatched(acc, i) ==
    IF acc.ts[i].mid \in acc.matched THEN acc
    ELSE [acc EXCEPT
            !.ts = set_negotiated(@, i),
            !.media_sections =
                Append(@, [MediaSectionDefault(acc.ts[i].mid) EXCEPT
                             !.transceiver = Some(i)])]

\* a plausible slip: the synthetic section is appended without the flag test
append_application_always(acc) ==
    [acc EXCEPT !.media_sections =
                   Append(@, [MediaSectionDefault(Decimal(Len(acc.media_sections)))
                                EXCEPT !.data = TRUE])]

\* lines 196-202: the synthetic data-channel section
append_application(acc) ==
    IF acc.already_have_application_media_section THEN acc
    ELSE [acc EXCEPT !.media_sections =
                        Append(@, [MediaSectionDefault(Decimal(Len(acc.media_sections)))
                                     EXCEPT !.data = TRUE])]

\* the loop of lines 138-180, from the remote media description of index i on
RECURSIVE match_media_from(_, _, _, _)
match_media_from(acc, medias, i, include_unmatched) ==
    IF i > Len(medias) THEN acc
    ELSE match_media_from(match_media(acc, medias[i], include_unmatched), medias, i + 1,
                          include_unmatched)

\* the loop of lines 185-194, from the local transceiver of index i on
RECURSIVE append_unmatched_from(_, _)
append_unmatched_from(acc, i) ==
    IF i > Len(acc.ts) THEN acc
    ELSE append_unmatched_from(append_unmatched(acc, i), i + 1)

\* RTCCertificate::get_fingerprints
get_fingerprints(cert) == cert.fingerprints

\* Session::generate_matched_sdp.  The result holds, besides the Result of the
\* source (err, d), the transceivers as the call leaves them and the section
\* list it handed to populate_sdp (None when it did not get that far).
generate_matched_sdp(session, fresh_origin, remote_description, local_ice_params, ts, use_identity, include_unmatched, connection_role) ==
    LET d == new_jsep_session_description(use_identity, fresh_origin)
        acc0 == [err |-> Ok, ts |-> ts, media_sections |-> << >>,
                 already_have_application_media_section |-> FALSE, matched |-> {}]
        acc1 == IF IsSome(remote_description.parsed)
                THEN match_media_from(acc0, Unwrap(remote_description.parsed), 1,
                                      include_unmatched)
                ELSE acc0
        acc2 == IF include_unmatched
                THEN append_application(append_unmatched_from(acc1, 1))
                ELSE acc1
    IN IF acc1.err # Ok
       THEN [err |-> acc1.err, d |-> None, ts |-> acc1.ts, media_sections |-> None]
       ELSE IF session.certificates = << >>
       THEN [err |-> "ErrNonCertificate", d |-> None, ts |-> acc2.ts,
             media_sections |-> None]
       ELSE LET r == populate_sdp(d, get_fingerprints(session.certificates[1]),
                                  session.local_addr, local_ice_params, connection_role,
                                  acc2.ts, acc2.media_sections, TRUE)
            IN [err |-> r.err, d |-> r.d, ts |-> acc2.ts,
                media_sections |-> Some(acc2.media_sections)]

(***************************************************************************)
(* Inputs of the SDP engine.                                               *)
(***************************************************************************)
LocalAddr == [ip |-> Str("10.0.0.1"), port |-> Str("3478")]
LocalIceParams == [username_fragment |-> Str("ufrag"), password |-> Str("pwd")]
Passive == Str("passive")
\* a certificate with two fingerprints
Certificate ==
    [fingerprints |-> << [algorithm |-> Str("sha-256"), value |-> Str("ab:cd")],
                         [algorithm |-> Str("sha-512"), value |-> Str("ef:01")] >>]
CertificateLists == { << >>, << Certificate >> }
FreshOrigin == [session_id |-> 7, session_version |-> 1]

Opus ==
    [payload_type |-> Str("111"),
     capability |-> [mime_type |-> << "audio/", "opus" >>, clock_rate |-> Str("48000"),
                     channels |-> Str("2"), sdp_fmtp_line |-> Str("useinbandfec=1"),
                     rtcp_feedback |-> << [typ |-> Str("nack"), parameter |-> Str("pli")] >>]]

TrackA == [id |-> Str("trackA"), stream_id |-> Str("streamA")]
TrackB == [id |-> Str("trackB"), stream_id |-> Str("streamA")]

\* RTCRtpTransceiver, the sender new: not negotiated, no initial track id
Transceiver(mid, kind, direction, codecs, track, stream_ids) ==
    [mid |-> mid, kind |-> kind, direction |-> direction,
     current_direction |-> Unspecified, codecs |-> codecs, stopped |-> FALSE,
     sender |-> [track |-> track, initial_track_id |-> None,
                 associated_media_stream_ids |-> stream_ids,
                 ssrc |-> Str("1234"), negotiated |-> FALSE]]

Mid == { Str("0"), Str("1") }

SeqsUpTo(S, n) == UNION { [1..k -> S] : k \in 0..n }

(***************************************************************************)
(* Specification SpecDirection.                                            *)
(***************************************************************************)
IdleEndpoint ==
    /\ endpoints = [e \in EndpointId |-> None]
    /\ heap = << >>
    /\ ep_ret = NoEpRet
    /\ ep_passed = {}

IdleOrigin ==
    /\ origin = OriginDefault
    /\ origin_ret = NoOriginRet
    /\ origin_calls = 0

IdleDirection ==
    /\ dir_a = Unspecified
    /\ dir_b = Unspecified
    /\ dir_ret = NoDirRet

NoSdpRet ==
    [op |-> "none", err |-> Ok, d |-> None, media_sections |-> None, ts_before |-> << >>,
     remote |-> [parsed |-> None], include_unmatched |-> FALSE,
     media_description_fingerprint |-> FALSE]

IdleSdp ==
    /\ certificates = << >>
    /\ local_transceivers = << >>
    /\ sdp_ret = NoSdpRet

NoSectionRet ==
    [op |-> "none", err |-> Ok, media |-> None, should_add_id |-> FALSE,
     offered_direction |-> None, should_add_candidates |-> FALSE,
     transceiver_direction |-> Unspecified, latch_before |-> None]

IdleSection ==
    /\ transceiver = Transceiver(Str("0"), Audio, Unspecified, << >>, None, << >>)
    /\ section_ret = NoSectionRet
    /\ msid_latch = None

IdleAnswer == answers = << >>

\* a media description with the given attributes
CandMedia(attributes) ==
    [media_name |-> [media |-> Str("audio"), port |-> 9, protos |-> ProtosRtp,
                     formats |-> << Str("111") >>],
     connection_information |-> ConnectionInformationAny,
     attributes |-> attributes]

\* no media description is being worked on
NoCand ==
    [m0 |-> CandMedia(<< >>), m |-> CandMedia(<< >>), candidate |-> LocalAddr,
     state |-> Gathering, calls |-> 0, first |-> None]

IdleCandidate == cand = NoCand

\* the Registry of Registry::new (no builder), nothing built or called yet
NoReg ==
    [builders |-> << >>, op |-> "none", stage |-> None, built_from |-> << >>,
     id |-> "", log |-> << >>, events |-> << >>]

IdleRegistry == reg = NoReg

InitDirection ==
    /\ dir_a \in Direction
    /\ dir_b \in Direction
    /\ dir_ret = NoDirRet
    /\ IdleEndpoint /\ IdleOrigin /\ IdleSdp /\ IdleSection /\ IdleAnswer /\ IdleCandidate /\ IdleRegistry

NextDirection ==
    \/ DirectionIntersect
    \/ DirectionReverse
    \/ DirectionFromSendRecv
    \/ DirectionRoundTrip

SpecDirection == InitDirection /\ [][NextDirection]_vars

(***************************************************************************)
(* Specification SpecEndpoint: one Session, any sequence of add_endpoint   *)
(* and get_endpoint calls.                                                 *)
(***************************************************************************)
GetEndpoint(endpoint_id) ==
    /\ ep_ret' = [op |-> "get_endpoint", existing |-> IsSome(get_endpoint(endpoint_id)),
                  endpoint |-> IF IsSome(get_endpoint(endpoint_id))
                               THEN Unwrap(get_endpoint(endpoint_id)) ELSE 0,
                  endpoint_id |-> endpoint_id, transport |-> ep_ret.transport,
                  known_id |-> KnownId(endpoint_id)]
    /\ UNCHANGED << endpoints, heap, ep_passed, notEp >>

InitEndpoint ==
    /\ IdleEndpoint /\ IdleOrigin /\ IdleDirection /\ IdleSdp /\ IdleSection /\ IdleAnswer /\ IdleCandidate /\ IdleRegistry

NextEndpoint ==
    \/ \E e \in EndpointId, f \in FourTuple : AddEndpoint(e, f)
    \/ \E e \in EndpointId : GetEndpoint(e)

SpecEndpoint == InitEndpoint /\ [][NextEndpoint]_vars

(***************************************************************************)
(* Specification SpecOrigin: one stored origin, any sequence of            *)
(* update_sdp_origin calls, each on a fresh description.                   *)
(***************************************************************************)
InitOrigin ==
    /\ IdleEndpoint /\ IdleOrigin /\ IdleDirection /\ IdleSdp /\ IdleSection /\ IdleAnswer /\ IdleCandidate /\ IdleRegistry

NextOrigin ==
    \E id \in SessionIdOf, v \in 0..MaxSessionVersion :
        UpdateSdpOrigin([session_id |-> id, session_version |-> v])

SpecOrigin == InitOrigin /\ [][NextOrigin]_vars

(***************************************************************************)
(* Specification SpecSdp: a Session with its certificates and the caller's *)
(* transceivers; generate_matched_sdp on any remote description of the     *)
(* bounded set, and populate_sdp on any section list over the transceivers.*)
(***************************************************************************)
\* a remote media description: the mid attribute, if any, then the direction
\* attributes
RemoteMedia(media, mid, directions) ==
    [media_name |-> [media |-> media],
     attributes |->
         (IF IsSome(mid) THEN << [key |-> Str("mid"), value |-> mid] >> ELSE << >>)
             \o [i \in 1..Len(directions) |-> [key |-> directions[i], value |-> None]]]

\* audio sections with every shape of mid, an audio section without a direction
\* attribute, a section of an unknown media type, and an application section
RemoteMediaChoices ==
    { RemoteMedia(Str("audio"), mid, << Str("sendonly") >>) :
        mid \in { None, Some(EmptyString) } \cup { Some(m) : m \in Mid } }
      \cup { RemoteMedia(Str("audio"), Some(Str("0")), << >>),
             RemoteMedia(Str("text"), Some(Str("1")), << Str("sendonly") >>) }
      \cup { RemoteMedia(MEDIA_SECTION_APPLICATION, Some(Str("0")), << >>) }

RemoteDescriptions ==
    { [parsed |-> None] }
        \cup { [parsed |-> Some(s)] : s \in SeqsUpTo(RemoteMediaChoices, MaxRemoteMedia) }

\* a transceiver with a codec and a track, and the two codec-less kinds
TransceiverKinds ==
    { << << Opus >>, Some(TrackA) >>, << << >>, Some(TrackA) >>, << << >>, None >> }

TransceiverChoices ==
    { Transceiver(mid, Audio, Sendrecv, k[1], k[2], << Str("streamA") >>) :
        mid \in Mid, k \in TransceiverKinds }

\* populate_sdp does not read the mid of a transceiver
PopulateTransceiverChoices ==
    { Transceiver(Str("0"), Audio, Sendrecv, k[1], k[2], << Str("streamA") >>) :
        k \in TransceiverKinds }

\* the sections populate_sdp is tried on: data-channel sections, sections of
\* each transceiver, and the two ill-formed kinds it has to refuse (a section
\* without a transceiver, a data-channel section with one)
SectionChoices(ts) ==
    { [id |-> id, transceiver |-> t, data |-> data, rid_map |-> << >>,
       offered_direction |-> None] :
        id \in Mid, t \in { None } \cup { Some(i) : i \in 1..Len(ts) }, data \in BOOLEAN }
      \ { m \in [id : Mid, transceiver : { Some(i) : i \in 2..Len(ts) }, data : { TRUE },
                  rid_map : { << >> }, offered_direction : { None }] : TRUE }

Session == [certificates |-> certificates, local_addr |-> LocalAddr]

\* one call on the inputs drawn in Init
GenerateMatchedSdp(remote_description, include_unmatched) ==
    /\ sdp_ret.op = "none"
    /\ LET r == generate_matched_sdp(Session, FreshOrigin, remote_description,
                                     LocalIceParams, local_transceivers, FALSE,
                                     include_unmatched, Passive)
       IN /\ local_transceivers' = r.ts
          /\ sdp_ret' = [op |-> "generate_matched_sdp", err |-> r.err, d |-> r.d,
                         media_sections |-> r.media_sections,
                         ts_before |-> local_transceivers,
                         remote |-> remote_description,
                         include_unmatched |-> include_unmatched,
                         media_description_fingerprint |-> TRUE]
    /\ UNCHANGED << certificates, notSdp >>

PopulateSdp(media_sections, media_description_fingerprint) ==
    /\ sdp_ret.op = "none"
    /\ certificates # << >>
    /\ LET r == populate_sdp(new_jsep_session_description(FALSE, FreshOrigin),
                             get_fingerprints(certificates[1]), LocalAddr, LocalIceParams,
                             Passive, local_transceivers, media_sections,
                             media_description_fingerprint)
       IN sdp_ret' = [op |-> "populate_sdp", err |-> r.err, d |-> r.d,
                      media_sections |-> Some(media_sections),
                      ts_before |-> local_transceivers,
                      remote |-> [parsed |-> None], include_unmatched |-> FALSE,
                      media_description_fingerprint |-> media_description_fingerprint]
    /\ UNCHANGED << certificates, local_transceivers, notSdp >>

InitSdp ==
    /\ certificates \in CertificateLists
    /\ local_transceivers \in SeqsUpTo(TransceiverChoices, MaxTransceivers)
    /\ sdp_ret = NoSdpRet
    /\ IdleEndpoint /\ IdleOrigin /\ IdleDirection /\ IdleSection /\ IdleAnswer /\ IdleCandidate /\ IdleRegistry

NextSdp ==
    \E r \in RemoteDescriptions, u \in BOOLEAN : GenerateMatchedSdp(r, u)

SpecSdp == InitSdp /\ [][NextSdp]_vars

\* Specification SpecPopulate: populate_sdp called on its own
NextPopulate ==
    \E s \in SeqsUpTo(SectionChoices(local_transceivers), MaxSections), f \in BOOLEAN :
        PopulateSdp(s, f)

InitPopulate ==
    /\ certificates = << Certificate >>
    /\ local_transceivers \in SeqsUpTo(PopulateTransceiverChoices, MaxTransceivers)
    /\ sdp_ret = NoSdpRet
    /\ IdleEndpoint /\ IdleOrigin /\ IdleDirection /\ IdleSection /\ IdleAnswer /\ IdleCandidate /\ IdleRegistry

SpecPopulate == InitPopulate /\ [][NextPopulate]_vars

(***************************************************************************)
(* Specification SpecSection: one transceiver and the successive builds of *)
(* its section (renegotiations), with the owner replacing the sender's     *)
(* track and changing the transceiver's direction in between.              *)
(***************************************************************************)
\* the section of the one transceiver
SectionOf(t) == [MediaSectionDefault(t.mid) EXCEPT !.transceiver = Some(1)]

\* the track ids of the msid property attributes ("msid:<stream> <track>")
MsidTrackIds(media) ==
    { << media.attributes[i].key[4] >> :
        i \in { j \in 1..Len(media.attributes) : media.attributes[j].key[1] = "msid:" } }

\* one call of add_transceiver_sdp on a fresh description.  msid_latch records
\* the track id of the first build that put msid lines out.
BuildSection(offered_direction, should_add_candidates) ==
    /\ LET r == add_transceiver_sdp(new_jsep_session_description(FALSE, FreshOrigin),
                                    get_fingerprints(Certificate), LocalIceParams, LocalAddr,
                                    << transceiver >>, SectionOf(transceiver),
                                    [should_add_candidates |-> should_add_candidates,
                                     mid_value |-> transceiver.mid, dtls_role |-> Passive,
                                     ice_gathering_state |-> Complete,
                                     offered_direction |-> offered_direction])
       IN /\ section_ret' =
                 [op |-> "add_transceiver_sdp", err |-> r.err,
                  media |-> IF r.err = Ok THEN Some(r.d.media_descriptions[1]) ELSE None,
                  should_add_id |-> r.should_add_id,
                  offered_direction |-> offered_direction,
                  should_add_candidates |-> should_add_candidates,
                  transceiver_direction |-> transceiver.direction,
                  latch_before |-> msid_latch]
          /\ msid_latch' =
                 IF IsNone(msid_latch) /\ r.err = Ok
                        /\ MsidTrackIds(r.d.media_descriptions[1]) # {}
                 THEN Some(CHOOSE id \in MsidTrackIds(r.d.media_descriptions[1]) : TRUE)
                 ELSE msid_latch
    /\ UNCHANGED << transceiver, notSection >>

\* the owner replaces (or removes) the sender's track
ReplaceTrack(track) ==
    /\ track # transceiver.sender.track
    /\ transceiver' = [transceiver EXCEPT !.sender.track = track]
    /\ UNCHANGED << section_ret, msid_latch, notSection >>

\* the owner changes the transceiver's direction
SetDirection(direction) ==
    /\ direction # transceiver.direction
    /\ transceiver' = [transceiver EXCEPT !.direction = direction]
    /\ UNCHANGED << section_ret, msid_latch, notSection >>

InitSection ==
    /\ transceiver \in { Transceiver(Str("0"), Audio, direction, codecs, track,
                                     << Str("streamA") >>) :
                            direction \in Direction, codecs \in { << >>, << Opus >> },
                            track \in { None, Some(TrackA) } }
    /\ section_ret = NoSectionRet
    /\ msid_latch = None
    /\ IdleEndpoint /\ IdleOrigin /\ IdleDirection /\ IdleSdp /\ IdleAnswer /\ IdleCandidate /\ IdleRegistry

NextSection ==
    \/ \E o \in { None } \cup { Some(dir) : dir \in Direction }, c \in BOOLEAN :
           BuildSection(o, c)
    \/ \E track \in { None, Some(TrackA), Some(TrackB) } : ReplaceTrack(track)
    \/ \E direction \in Direction : SetDirection(direction)

SpecSection == InitSection /\ [][NextSection]_vars

(***************************************************************************)
(* Specification SpecAnswer: one Session, successive answer generations    *)
(* (Session.create_pending_answer).                                        *)
(***************************************************************************)
\* the origin of SessionDescription::new_jsep_session_description: a session id
\* and a session version made anew for each description
FreshOrigins == [session_id : SessionIdOf, session_version : 1..MaxSessionVersion]

\* the origin Session::create_pending_answer gives the description d: the
\* update is applied to an Origin::default() made in the call
pending_answer_origin(d) == update_sdp_origin(OriginDefault, d.origin).d

\* the remote descriptions answers are made for: not parsed, without media, with
\* a data-channel section, with an audio section (which has no local transceiver)
AnswerRemoteDescriptions ==
    { [parsed |-> None], [parsed |-> Some(<< >>)],
      [parsed |-> Some(<< RemoteMedia(MEDIA_SECTION_APPLICATION, Some(Str("0")), << >>) >>)],
      [parsed |-> Some(<< RemoteMedia(Str("audio"), Some(Str("0")), << Str("sendonly") >>) >>)] }

\* Session::create_pending_answer.  The answer holds the description as parsed;
\* its text (d.marshal()) is not modelled.
CreatePendingAnswer(remote_description, fresh_origin) ==
    /\ Len(answers) < MaxAnswers
    /\ LET r == generate_matched_sdp(Session, fresh_origin, remote_description,
                                     LocalIceParams, << >>, FALSE, FALSE, Passive)
       IN /\ sdp_ret' = [op |-> "create_pending_answer", err |-> r.err, d |-> r.d,
                         media_sections |-> r.media_sections, ts_before |-> << >>,
                         remote |-> remote_description, include_unmatched |-> FALSE,
                         media_description_fingerprint |-> TRUE]
          /\ answers' = IF r.err = Ok
                        THEN Append(answers, pending_answer_origin(Unwrap(r.d)))
                        ELSE answers
    /\ UNCHANGED << certificates, local_transceivers, notAnswer >>

InitAnswer ==
    /\ certificates \in CertificateLists
    /\ local_transceivers = << >>
    /\ sdp_ret = NoSdpRet
    /\ answers = << >>
    /\ IdleEndpoint /\ IdleOrigin /\ IdleDirection /\ IdleSection /\ IdleCandidate /\ IdleRegistry

NextAnswer ==
    \E r \in AnswerRemoteDescriptions, o \in FreshOrigins : CreatePendingAnswer(r, o)

SpecAnswer == InitAnswer /\ [][NextAnswer]_vars

(***************************************************************************)
(* Specification SpecCandidate: add_candidate_to_media_descriptions applied*)
(* again and again, with one candidate and one gathering state, to a media *)
(* description.                                                            *)
(***************************************************************************)
OtherAddr == [ip |-> Str("10.0.0.2"), port |-> Str("3478")]

\* the attributes a media description may hold before the first call
CandidateAttributePool ==
    { ValueAttribute(Str("mid"), Str("0")),
      ValueAttribute(Str("candidate"), CandidateMarshaled(LocalAddr, "1")),
      ValueAttribute(Str("candidate"), CandidateMarshaled(LocalAddr, "2")),
      ValueAttribute(Str("candidate"), CandidateMarshaled(OtherAddr, "1")),
      PropertyAttribute(Str("end-of-candidates")) }

\* attribute lists without a repeated attribute
InitialAttributes ==
    { q \in SeqsUpTo(CandidateAttributePool, MaxInitialAttributes) :
        \A i, j \in 1..Len(q) : q[i] = q[j] => i = j }

AddCandidateToMediaDescriptions ==
    /\ cand.calls < MaxCandidateCalls
    /\ cand' = [cand EXCEPT
                  !.m = add_candidate_to_media_descriptions(cand.candidate, @, cand.state),
                  !.calls = @ + 1,
                  !.first = IF cand.calls = 0
                            THEN Some(add_candidate_to_media_descriptions(
                                          cand.candidate, cand.m, cand.state))
                            ELSE @]
    /\ UNCHANGED notCand

InitCandidate ==
    /\ cand \in { [m0 |-> CandMedia(q), m |-> CandMedia(q), candidate |-> LocalAddr,
                   state |-> st, calls |-> 0, first |-> None] :
                    q \in InitialAttributes, st \in { Gathering, Complete } }
    /\ IdleEndpoint /\ IdleOrigin /\ IdleDirection /\ IdleSdp /\ IdleSection /\ IdleAnswer /\ IdleRegistry

NextCandidate == AddCandidateToMediaDescriptions

SpecCandidate == InitCandidate /\ [][NextCandidate]_vars

(***************************************************************************)
(* Specification SpecRegistry: the interceptor Registry (add, build) and   *)
(* the calls on the stage it built.                                        *)
(***************************************************************************)
\* the interceptor builders of the crate (mod nack, mod report, mod twcc)
Builders == { "nack", "report", "twcc" }

BuildIds == { "a", "b" }

\* struct NoOp
NoOp == [name |-> "NoOp", next |-> None]

\* InterceptorBuilder::build(id), of the builder b: a stage with nothing chained
builder_build(b, id) == [name |-> b, id |-> id, next |-> None]

\* Interceptor::chain: NoOp returns itself and drops next; a built stage keeps
\* next as the stage it wraps
chain(stage, next) ==
    IF stage.name = "NoOp" THEN stage ELSE [stage EXCEPT !.next = Some(next)]

\* a plausible slip: the builders are walked in registration order
RECURSIVE build_forward_from(_, _, _, _)
build_forward_from(builders, id, k, acc) ==
    IF k > Len(builders) THEN acc
    ELSE build_forward_from(builders, id, k + 1,
                            [stage |-> chain(builder_build(builders[k], id), acc.stage),
                             log |-> Append(acc.log, k)])

\* the loop of Registry::build, from the builder of index k down to the first:
\* log holds the indexes of the builders whose build was called, in call order
RECURSIVE build_from(_, _, _, _)
build_from(builders, id, k, acc) ==
    IF k = 0 THEN acc
    ELSE build_from(builders, id, k - 1,
                    [stage |-> chain(builder_build(builders[k], id), acc.stage),
                     log |-> Append(acc.log, k)])

registry_build_forward(builders, id) ==
    build_forward_from(builders, id, 1, [stage |-> NoOp, log |-> << >>])

\* Registry::build
registry_build(builders, id) ==
    build_from(builders, id, Len(builders), [stage |-> NoOp, log |-> << >>])

\* the event lists a call on a built stage may return: what nack, report and
\* twcc return is not fixed here, any short list of events is possible
InterceptorEvents == { "Inbound", "Outbound", "Error" }
EventLists == { << >> } \cup { << e >> : e \in InterceptorEvents }

\* Interceptor::read, write and handle_timeout: the lists the stage may return
stage_read(stage) == IF stage.name = "NoOp" THEN { << >> } ELSE EventLists
stage_write(stage) == IF stage.name = "NoOp" THEN { << >> } ELSE EventLists
stage_handle_timeout(stage) == IF stage.name = "NoOp" THEN { << >> } ELSE EventLists

\* Registry::add
RegistryAdd(b) ==
    /\ Len(reg.builders) < MaxBuilders
    /\ reg' = [reg EXCEPT !.builders = Append(@, b), !.op = "add", !.events = << >>]
    /\ UNCHANGED notReg

\* Registry::build; the stage built is kept for the calls that follow
RegistryBuild(id) ==
    /\ LET r == registry_build(reg.builders, id)
       IN reg' = [reg EXCEPT !.op = "build", !.stage = Some(r.stage),
                             !.built_from = reg.builders, !.id = id, !.log = r.log,
                             !.events = << >>]
    /\ UNCHANGED notReg

StageRead ==
    /\ IsSome(reg.stage)
    /\ \E ev \in stage_read(Unwrap(reg.stage)) :
           reg' = [reg EXCEPT !.op = "read", !.events = ev]
    /\ UNCHANGED notReg

StageWrite ==
    /\ IsSome(reg.stage)
    /\ \E ev \in stage_write(Unwrap(reg.stage)) :
           reg' = [reg EXCEPT !.op = "write", !.events = ev]
    /\ UNCHANGED notReg

StageHandleTimeout ==
    /\ IsSome(reg.stage)
    /\ \E ev \in stage_handle_timeout(Unwrap(reg.stage)) :
           reg' = [reg EXCEPT !.op = "handle_timeout", !.events = ev]
    /\ UNCHANGED notReg

InitRegistry ==
    /\ reg = NoReg
    /\ IdleEndpoint /\ IdleOrigin /\ IdleDirection /\ IdleSdp /\ IdleSection /\ IdleAnswer
    /\ IdleCandidate

NextRegistry ==
    \/ \E b \in Builders : RegistryAdd(b)
    \/ \E id \in BuildIds : RegistryBuild(id)
    \/ StageRead
    \/ StageWrite
    \/ StageHandleTimeout

SpecRegistry == InitRegistry /\ [][NextRegistry]_vars

(***************************************************************************)
(* Claims on the identity model, the stored origin and the direction       *)
(* algebra.                                                                *)
(***************************************************************************)
\* the four-tuples passed to add_endpoint for an EndpointId so far
PassedFor(e) == { p[2] : p \in { q \in ep_passed : q[1] = e } }

\* the Transports owned by the Endpoint objects made for an EndpointId
TransportsOf(e) ==
    { << h, f >> \in (DOMAIN heap) \X FourTuple :
         heap[h].endpoint_id = e /\ f \in heap[h].transports }

\* C1 (as claimed): once add_endpoint was called for an EndpointId, the Session's
\* endpoint mapping holds an Endpoint for it, get_endpoint finds it, and a later
\* add_endpoint call for that EndpointId reports it as existing and returns the
\* registered Endpoint.
C1_AddEndpointRegisters ==
    /\ \A p \in ep_passed : IsSome(get_endpoint(p[1]))
    /\ (ep_ret.op = "add_endpoint" /\ ep_ret.known_id) =>
           /\ ep_ret.existing
           /\ get_endpoint(ep_ret.endpoint_id) = Some(ep_ret.endpoint)

\* C2 (as claimed): a repeated add_endpoint call for a known EndpointId returns
\* 'existing', and the Transports owned for an EndpointId are as many as the
\* distinct four-tuples passed for it (no duplicate Transport).
C2_TransportPerFourTuple ==
    /\ (ep_ret.op = "add_endpoint" /\ ep_ret.known_id) => ep_ret.existing
    /\ \A e \in EndpointId : Cardinality(TransportsOf(e)) = Cardinality(PassedFor(e))

\* C3 (as claimed): a call on an already seeded stored origin overwrites the
\* description's session id with the stored one, increments the stored version
\* by one and sets the description's version to the incremented stored value.
C3_VersionFollowsStoredOrigin ==
    (origin_calls >= 2 /\ origin_ret.before.session_version # 0) =>
        /\ origin_ret.d_out.session_id = origin_ret.before.session_id
        /\ origin.session_id = origin_ret.before.session_id
        /\ origin.session_version = origin_ret.before.session_version + 1
        /\ origin_ret.d_out.session_version = origin.session_version

\* C9: for all ordered pairs (a, b) of named directions, intersect(a, b) grants
\* send only if both a and b do, and receive only if both a and b do.
C9_IntersectGrantsNoNewCapability ==
    (dir_ret.op = "intersect" /\ dir_ret.a \in NamedDirection
                              /\ dir_ret.b \in NamedDirection) =>
        /\ has_send(dir_ret.out) => (dir_ret.a \in { Sendrecv, Sendonly }
                                     /\ dir_ret.b \in { Sendrecv, Sendonly })
        /\ has_recv(dir_ret.out) => (dir_ret.a \in { Sendrecv, Recvonly }
                                     /\ dir_ret.b \in { Sendrecv, Recvonly })
        /\ dir_ret.out \in NamedDirection

\* C9 witness: Sendrecv and Recvonly were intersected, giving Recvonly
C9_Witness ==
    /\ dir_ret.op = "intersect"
    /\ dir_ret.a = Sendrecv /\ dir_ret.b = Recvonly /\ dir_ret.out = Recvonly

(***************************************************************************)
(* Claims on the media section matcher and the description assembler.      *)
(***************************************************************************)
\* the media descriptions of the remote description of the last call
RemoteSeq ==
    IF IsSome(sdp_ret.remote.parsed) THEN Unwrap(sdp_ret.remote.parsed) ELSE << >>

\* the section list of the last call, if it got as far as building one
Sections == IF IsSome(sdp_ret.media_sections) THEN Unwrap(sdp_ret.media_sections) ELSE << >>

\* the media descriptions of the description the last call returned
OutMedia == IF IsSome(sdp_ret.d) THEN Unwrap(sdp_ret.d).media_descriptions ELSE << >>

HasMid(media) == IsSome(get_mid_value(media)) /\ get_mid_value(media) # Some(EmptyString)

IsApplication(media) == media.media_name.media = Str("application")

\* an audio or video section with a recognised direction attribute
IsNegotiable(media) ==
    /\ media.media_name.media \in { Str("audio"), Str("video") }
    /\ \E i \in 1..Len(media.attributes) :
          media.attributes[i].key \in { Str("sendrecv"), Str("sendonly"),
                                        Str("recvonly"), Str("inactive") }

HasCounterpart(media) ==
    \E i \in 1..Len(sdp_ret.ts_before) :
        Some(sdp_ret.ts_before[i].mid) = get_mid_value(media)

\* C4 (as claimed): generate_matched_sdp with include_unmatched = false on a
\* remote offer holding a media section (not a data-channel one) whose mid has no
\* local transceiver counterpart fails with ErrPeerConnTransceiverMidNil and
\* returns no description.
C4_UnmatchedMidFails ==
    (/\ sdp_ret.op = "generate_matched_sdp"
     /\ ~sdp_ret.include_unmatched
     /\ \E i \in 1..Len(RemoteSeq) :
           /\ HasMid(RemoteSeq[i])
           /\ ~IsApplication(RemoteSeq[i])
           /\ ~HasCounterpart(RemoteSeq[i])) =>
        /\ sdp_ret.err = "ErrPeerConnTransceiverMidNil"
        /\ sdp_ret.d = None

\* C4 (amended): generate_matched_sdp with include_unmatched = false fails with
\* ErrPeerConnTransceiverMidNil, and returns no description, exactly when the
\* remote offer holds an audio or video section with a non-empty mid and a
\* recognised direction attribute whose mid has no local transceiver
\* counterpart, and no section before it carries an empty mid.
C4_UnmatchedNegotiableMidFails ==
    (sdp_ret.op = "generate_matched_sdp" /\ ~sdp_ret.include_unmatched) =>
        /\ sdp_ret.err = "ErrPeerConnTransceiverMidNil" <=>
              \E i \in 1..Len(RemoteSeq) :
                  /\ HasMid(RemoteSeq[i])
                  /\ IsNegotiable(RemoteSeq[i])
                  /\ ~HasCounterpart(RemoteSeq[i])
                  /\ \A j \in 1..(i - 1) : get_mid_value(RemoteSeq[j]) # Some(EmptyString)
        /\ sdp_ret.err = "ErrPeerConnTransceiverMidNil" => sdp_ret.d = None

\* C4 witness: a two-section offer whose first section is skipped for want of a
\* direction attribute and whose second section fails the transceiver lookup
C4_Witness ==
    /\ sdp_ret.op = "generate_matched_sdp"
    /\ ~sdp_ret.include_unmatched
    /\ Len(RemoteSeq) = 2
    /\ HasMid(RemoteSeq[1]) /\ ~IsNegotiable(RemoteSeq[1]) /\ ~IsApplication(RemoteSeq[1])
    /\ HasMid(RemoteSeq[2]) /\ IsNegotiable(RemoteSeq[2]) /\ ~HasCounterpart(RemoteSeq[2])
    /\ Len(sdp_ret.ts_before) = 1
    /\ sdp_ret.err = "ErrPeerConnTransceiverMidNil"
    /\ sdp_ret.d = None

\* the remote sections that yield a section of the answer
IsTaken(media) == HasMid(media) /\ (IsApplication(media) \/ IsNegotiable(media))

IsTakenTransceiver(media) == HasMid(media) /\ ~IsApplication(media) /\ IsNegotiable(media)

MidsOf(medias) == [i \in 1..Len(medias) |-> Unwrap(get_mid_value(medias[i]))]

RemoteIds == MidsOf(SelectSeq(RemoteSeq, IsTaken))

IsUnmatched(t) == t.mid \notin Range(MidsOf(SelectSeq(RemoteSeq, IsTakenTransceiver)))

UnmatchedTransceivers ==
    IF sdp_ret.include_unmatched THEN SelectSeq(sdp_ret.ts_before, IsUnmatched) ELSE << >>

UnmatchedIds == [i \in 1..Len(UnmatchedTransceivers) |-> UnmatchedTransceivers[i].mid]

SyntheticIds ==
    IF sdp_ret.include_unmatched /\ SelectSeq(RemoteSeq, IsTaken) = SelectSeq(RemoteSeq, IsTakenTransceiver)
    THEN << Decimal(Len(RemoteIds) + Len(UnmatchedIds)) >>
    ELSE << >>

ExpectedIds == RemoteIds \o UnmatchedIds \o SyntheticIds

\* C5: in every description generate_matched_sdp returns, the media sections
\* are, in this order: those taken from the remote description, in the remote
\* description's order; those of the unmatched local transceivers, in the local
\* order; the synthetic data-channel section, if any.  Each block carries the
\* mid of its place, or is the rejected block of a codec-less transceiver of
\* that mid.
C5_SectionsInEncounterOrder ==
    (sdp_ret.op = "generate_matched_sdp" /\ sdp_ret.err = Ok) =>
        /\ Len(OutMedia) = Len(ExpectedIds)
        /\ \A i \in 1..Len(OutMedia) :
              \/ get_mid_value(OutMedia[i]) = Some(ExpectedIds[i])
              \/ /\ OutMedia[i].media_name.port = 0
                 /\ \E k \in 1..Len(sdp_ret.ts_before) :
                       /\ sdp_ret.ts_before[k].mid = ExpectedIds[i]
                       /\ sdp_ret.ts_before[k].codecs = << >>
        /\ \A i \in 1..Len(OutMedia) :
              IsApplication(OutMedia[i]) <=>
                  \/ i > Len(RemoteIds) + Len(UnmatchedIds)
                  \/ i <= Len(RemoteIds) /\ IsApplication(SelectSeq(RemoteSeq, IsTaken)[i])

\* C5 witness: a description with a section taken from the remote description
\* (mid 1), then the section of an unmatched local transceiver (mid 0), then the
\* synthetic data-channel section (mid 2)
C5_Witness ==
    /\ sdp_ret.op = "generate_matched_sdp" /\ sdp_ret.err = Ok
    /\ RemoteIds = << Str("1") >>
    /\ UnmatchedIds = << Str("0") >>
    /\ SyntheticIds = << Str("2") >>
    /\ [i \in 1..Len(OutMedia) |-> get_mid_value(OutMedia[i])]
           = << Some(Str("1")), Some(Str("0")), Some(Str("2")) >>

\* the section has a transceiver with an empty codec list
HasNoCodecs(m) ==
    IsSome(m.transceiver) /\ sdp_ret.ts_before[Unwrap(m.transceiver)].codecs = << >>

HasTrack(m) == IsSome(sdp_ret.ts_before[Unwrap(m.transceiver)].sender.track)

\* the section's builder signals inclusion
IsIncluded(m) == m.data \/ ~HasNoCodecs(m)

\* the attributes of the returned description with the key "group"
IsGroup(a) == a.key = Str("group")

GroupAttributes ==
    IF IsSome(sdp_ret.d) THEN SelectSeq(Unwrap(sdp_ret.d).attributes, IsGroup) ELSE << >>

\* the mids listed in the group attribute "BUNDLE <mid> <mid> .."
BundleIds ==
    { << Unwrap(GroupAttributes[1].value)[k] >> :
        k \in { j \in 3..Len(Unwrap(GroupAttributes[1].value)) : j % 2 = 1 } }

IsRejectedBlock(media, kind) ==
    /\ media.media_name.media = (IF kind = Audio THEN Str("audio") ELSE Str("video"))
    /\ media.media_name.port = 0
    /\ media.media_name.protos = << Str("UDP"), Str("TLS"), Str("RTP"), Str("SAVPF") >>
    /\ media.media_name.formats = << Str("0") >>

C6_WitnessSenderWithNoCodecs ==
    /\ sdp_ret.op = "generate_matched_sdp"
    /\ \E i \in 1..Len(Sections) : HasNoCodecs(Sections[i]) /\ HasTrack(Sections[i])
    /\ sdp_ret.err = "ErrSenderWithNoCodecs"

\* "BUNDLE", then " <mid>" for each included section from index i on
RECURSIVE BundleFrom(_, _)
BundleFrom(sections, i) ==
    IF i > Len(sections) THEN << >>
    ELSE (IF IsIncluded(sections[i]) THEN << " " >> \o sections[i].id ELSE << >>)
             \o BundleFrom(sections, i + 1)

\* C7: every description populate_sdp returns carries exactly one group
\* attribute; its value is "BUNDLE" followed by the space-separated mids of
\* exactly the sections whose builder signalled inclusion (data-channel sections
\* and transceiver sections with a non-empty codec list), in processing order.
C7_SingleBundleGroup ==
    (sdp_ret.op = "populate_sdp" /\ sdp_ret.err = Ok) =>
        /\ Len(GroupAttributes) = 1
        /\ GroupAttributes[1].value = Some(<< "BUNDLE" >> \o BundleFrom(Sections, 1))

\* C7 witness: two sections of different mids, the first of a codec-less
\* transceiver (left out of the group), the second of a transceiver with codecs
C7_Witness ==
    /\ sdp_ret.op = "populate_sdp" /\ sdp_ret.err = Ok
    /\ Len(Sections) = 2
    /\ ~IsIncluded(Sections[1])
    /\ IsIncluded(Sections[2]) /\ ~Sections[2].data
    /\ Sections[1].id = Str("0") /\ Sections[2].id = Str("1")
    /\ GroupAttributes = << [key |-> Str("group"), value |-> Some(<< "BUNDLE", " ", "1" >>)] >>

\* C7 witness of the order: two included sections, mid 1 before mid 0
C7_WitnessOrder ==
    /\ sdp_ret.op = "populate_sdp" /\ sdp_ret.err = Ok
    /\ GroupAttributes[1].value = Some(<< "BUNDLE", " ", "1", " ", "0" >>)

(***************************************************************************)
(* Claims on the section builder.                                          *)
(***************************************************************************)
IsDirectionAttribute(a) ==
    /\ a.value = None
    /\ a.key \in { Str("sendrecv"), Str("sendonly"), Str("recvonly"), Str("inactive"),
                   Str("Unspecified") }

\* the direction attributes of the block the last build put out
DirectionAttributes ==
    IF IsSome(section_ret.media)
    THEN SelectSeq(Unwrap(section_ret.media).attributes, IsDirectionAttribute)
    ELSE << >>

\* the direction the claim names for an offered direction and a transceiver
ClaimedDirection(offered_direction, transceiver_direction) ==
    IF IsNone(offered_direction) THEN transceiver_direction
    ELSE IF Unwrap(offered_direction) \in { Sendonly, Recvonly }
    THEN intersect(reverse(Unwrap(offered_direction)), transceiver_direction)
    ELSE IF Unwrap(offered_direction) = Inactive THEN Inactive
    ELSE transceiver_direction

\* C8: a non-rejected transceiver section carries one direction attribute:
\* intersect(reverse(offered), transceiver.direction) for an offered Sendonly or
\* Recvonly, transceiver.direction for an offered Sendrecv or Unspecified,
\* Inactive for an offered Inactive, and transceiver.direction when no direction
\* was offered.
C8_EmittedDirection ==
    (section_ret.op = "add_transceiver_sdp" /\ section_ret.err = Ok
                                            /\ section_ret.should_add_id) =>
        DirectionAttributes =
            << [key |-> DirectionToString(ClaimedDirection(section_ret.offered_direction,
                                                           section_ret.transceiver_direction)),
                value |-> None] >>

\* C8 witness: Sendonly offered to a Sendrecv transceiver is answered recvonly
C8_Witness ==
    /\ section_ret.op = "add_transceiver_sdp" /\ section_ret.err = Ok
    /\ section_ret.should_add_id
    /\ section_ret.offered_direction = Some(Sendonly)
    /\ section_ret.transceiver_direction = Sendrecv
    /\ DirectionAttributes = << [key |-> Str("recvonly"), value |-> None] >>

\* C10 (as claimed): once a build has advertised a track id in msid lines, every
\* later build of a non-rejected section emits msid lines carrying that same
\* track id, whatever the track and the direction have become.
C10_MsidLatch ==
    (/\ section_ret.op = "add_transceiver_sdp"
     /\ section_ret.err = Ok
     /\ section_ret.should_add_id
     /\ IsSome(section_ret.latch_before)) =>
        MsidTrackIds(Unwrap(section_ret.media)) = { Unwrap(section_ret.latch_before) }

(***************************************************************************)
(* Claims on the placement of fingerprints, ice-lite and candidates.       *)
(***************************************************************************)
IsFingerprint(a) == a.key = Str("fingerprint")

\* the fingerprint attributes of the session level of the returned description
SessionFingerprints ==
    IF IsSome(sdp_ret.d) THEN SelectSeq(Unwrap(sdp_ret.d).attributes, IsFingerprint) ELSE << >>

\* the fingerprint attributes of the media block of index i
MediaFingerprints(i) == SelectSeq(OutMedia[i].attributes, IsFingerprint)

\* the two fingerprints of the certificate, as attributes
CertificateFingerprints ==
    << [key |-> Str("fingerprint"), value |-> Some(<< "sha-256", " ", "AB:CD" >>)],
       [key |-> Str("fingerprint"), value |-> Some(<< "sha-512", " ", "EF:01" >>)] >>

\* C11: in every description populate_sdp returns the fingerprints are at media
\* level or at session level, never both: with media_description_fingerprint
\* the session level has none and every data-channel and non-rejected
\* transceiver section has all of them; without it no media section has one and
\* the session level has each once.
C11_FingerprintPlacement ==
    (sdp_ret.op = "populate_sdp" /\ sdp_ret.err = Ok) =>
        IF sdp_ret.media_description_fingerprint
        THEN /\ SessionFingerprints = << >>
             /\ \A i \in 1..Len(Sections) :
                   MediaFingerprints(i) = IF IsIncluded(Sections[i])
                                          THEN CertificateFingerprints ELSE << >>
        ELSE /\ SessionFingerprints = CertificateFingerprints
             /\ \A i \in 1..Len(Sections) : MediaFingerprints(i) = << >>

\* C11 witness: session-level placement over a data-channel section and a
\* transceiver section with codecs
C11_Witness ==
    /\ sdp_ret.op = "populate_sdp" /\ sdp_ret.err = Ok
    /\ ~sdp_ret.media_description_fingerprint
    /\ Len(Sections) = 2
    /\ Sections[1].data
    /\ ~Sections[2].data /\ IsIncluded(Sections[2])
    /\ SessionFingerprints = CertificateFingerprints
    /\ MediaFingerprints(1) = << >> /\ MediaFingerprints(2) = << >>

\* C11 witness of the media-level placement
C11_WitnessMediaLevel ==
    /\ sdp_ret.op = "populate_sdp" /\ sdp_ret.err = Ok
    /\ sdp_ret.media_description_fingerprint
    /\ Len(Sections) = 2
    /\ MediaFingerprints(1) = CertificateFingerprints
    /\ MediaFingerprints(2) = CertificateFingerprints
    /\ SessionFingerprints = << >>

IsIceLite(a) == a.key = Str("ice-lite")

\* C12: every description populate_sdp returns carries the session-level
\* ice-lite property attribute (once), an empty section list included.
C12_AlwaysIceLite ==
    (sdp_ret.op = "populate_sdp" /\ sdp_ret.err = Ok) =>
        /\ IsSome(sdp_ret.d)
        /\ SelectSeq(Unwrap(sdp_ret.d).attributes, IsIceLite)
               = << [key |-> Str("ice-lite"), value |-> None] >>

\* C12 witness: populate_sdp on the empty section list returns a description
\* without media whose attributes hold ice-lite
C12_Witness ==
    /\ sdp_ret.op = "populate_sdp" /\ sdp_ret.err = Ok
    /\ sdp_ret.media_sections = Some(<< >>)
    /\ OutMedia = << >>
    /\ \E i \in 1..Len(Unwrap(sdp_ret.d).attributes) :
          Unwrap(sdp_ret.d).attributes[i] = [key |-> Str("ice-lite"), value |-> None]

IsCandidateLine(a) == a.key \in { Str("candidate"), Str("end-of-candidates") }

\* C18: in every description populate_sdp returns, candidate and
\* end-of-candidates attributes are in no media block but that of the section of
\* index 0.
C18_CandidatesOnFirstSectionOnly ==
    (sdp_ret.op = "populate_sdp" /\ sdp_ret.err = Ok) =>
        \A i \in 2..Len(OutMedia) : SelectSeq(OutMedia[i].attributes, IsCandidateLine) = << >>

\* C18 witness: two included sections, the first with both candidate lines and
\* end-of-candidates, the second with none
C18_Witness ==
    /\ sdp_ret.op = "populate_sdp" /\ sdp_ret.err = Ok
    /\ Len(Sections) = 2
    /\ IsIncluded(Sections[1]) /\ IsIncluded(Sections[2])
    /\ Len(SelectSeq(OutMedia[1].attributes, IsCandidateLine)) = 3
    /\ SelectSeq(OutMedia[2].attributes, IsCandidateLine) = << >>

C13_WitnessSeededAgain ==
    /\ origin_calls = 2
    /\ origin_ret.before.session_version = 0
    /\ origin_ret.before.session_id # 0
    /\ origin.session_id # origin_ret.before.session_id

(***************************************************************************)
(* Claims on the answers of one Session and on the candidate lines.        *)
(***************************************************************************)
\* C14 (as claimed): of two successive successful create_pending_answer calls
\* on one Session, the second answer carries the session id of the first and a
\* session version exactly one greater.
C14_OriginPersistsAcrossAnswers ==
    \A i \in 2..Len(answers) :
        /\ answers[i].session_id = answers[i - 1].session_id
        /\ answers[i].session_version = answers[i - 1].session_version + 1

CountOf(attributes, a) == Cardinality({ i \in 1..Len(attributes) : attributes[i] = a })

CandidateLine(component) ==
    [key |-> Str("candidate"),
     value |-> Some(<< "1", " ", component, " ", "UDP", " ", "1", " ", "10.0.0.1", " ", "3478",
                       " ", "typ", " ", "host" >>)]

EndOfCandidates == [key |-> Str("end-of-candidates"), value |-> None]

\* C19: add_candidate_to_media_descriptions is idempotent: after any number of
\* calls with one candidate and one gathering state the description is what the
\* first call left, it holds each of the two candidate lines once and at most
\* one end-of-candidates attribute, which is appended only when the gathering
\* state is Complete; what the description held is kept in front.
C19_AddCandidateIdempotent ==
    cand.calls >= 1 =>
        /\ cand.m = Unwrap(cand.first)
        /\ CountOf(cand.m.attributes, CandidateLine("1")) = 1
        /\ CountOf(cand.m.attributes, CandidateLine("2")) = 1
        /\ CountOf(cand.m.attributes, EndOfCandidates) <= 1
        /\ CountOf(cand.m.attributes, EndOfCandidates)
               > CountOf(cand.m0.attributes, EndOfCandidates) => cand.state = Complete
        /\ cand.state = Complete => CountOf(cand.m.attributes, EndOfCandidates) = 1
        /\ SubSeq(cand.m.attributes, 1, Len(cand.m0.attributes)) = cand.m0.attributes

\* C19 witness: three calls in state Complete on a description that held the
\* component 1 line: the component 2 line and end-of-candidates were added once
C19_Witness ==
    /\ cand.calls = 3
    /\ cand.state = Complete
    /\ cand.m0.attributes = << CandidateLine("1") >>
    /\ cand.m.attributes = << CandidateLine("1"), CandidateLine("2"), EndOfCandidates >>

(***************************************************************************)
(* Claims on the answer to an offered direction.                           *)
(***************************************************************************)
\* the directions an answer may carry for an offered direction
AnsweredDirections(offered) ==
    CASE offered = Sendonly -> { Recvonly, Inactive }
      [] offered = Recvonly -> { Sendonly, Inactive }
      [] offered = Inactive -> { Inactive }
      [] OTHER -> Direction

\* C15: on the answer path, whatever the transceiver's own direction
\* (Unspecified included), a section offered Sendonly is answered recvonly or
\* inactive, one offered Recvonly is answered sendonly or inactive, one offered
\* Inactive is answered inactive; the answer sends only if the offer receives
\* and receives only if the offer sends.
C15_AnswerWithinOffer ==
    (/\ section_ret.op = "add_transceiver_sdp" /\ section_ret.err = Ok
     /\ section_ret.should_add_id
     /\ IsSome(section_ret.offered_direction)
     /\ Unwrap(section_ret.offered_direction) \in NamedDirection) =>
        \E a \in AnsweredDirections(Unwrap(section_ret.offered_direction)) :
            /\ DirectionAttributes = << [key |-> DirectionToString(a), value |-> None] >>
            /\ has_send(a) => has_recv(Unwrap(section_ret.offered_direction))
            /\ has_recv(a) => has_send(Unwrap(section_ret.offered_direction))

\* C15 witness: Recvonly offered to a transceiver of Unspecified direction is
\* answered inactive
C15_Witness ==
    /\ section_ret.op = "add_transceiver_sdp" /\ section_ret.err = Ok
    /\ section_ret.should_add_id
    /\ section_ret.offered_direction = Some(Recvonly)
    /\ section_ret.transceiver_direction = Unspecified
    /\ DirectionAttributes = << [key |-> Str("inactive"), value |-> None] >>

\* C15 witness: Inactive offered to a Sendrecv transceiver is answered inactive
C15_WitnessInactive ==
    /\ section_ret.op = "add_transceiver_sdp" /\ section_ret.err = Ok
    /\ section_ret.should_add_id
    /\ section_ret.offered_direction = Some(Inactive)
    /\ section_ret.transceiver_direction = Sendrecv
    /\ DirectionAttributes = << [key |-> Str("inactive"), value |-> None] >>

(***************************************************************************)
(* Claims on the synthetic data-channel section, the unparsed remote       *)
(* description and the negotiated mark.                                    *)
(***************************************************************************)
\* the loop met an application section of the remote description
ApplicationFound ==
    \E i \in 1..Len(RemoteSeq) : IsTaken(RemoteSeq[i]) /\ IsApplication(RemoteSeq[i])

\* the sections collected before the synthetic one
CollectedBefore == Len(RemoteIds) + Len(UnmatchedIds)

C16_WitnessApplicationFound ==
    /\ sdp_ret.op = "generate_matched_sdp" /\ sdp_ret.err = Ok
    /\ sdp_ret.include_unmatched /\ ApplicationFound
    /\ Len(UnmatchedIds) = 1
    /\ Len(Sections) = CollectedBefore

\* C17 (as claimed): when remote_description.parsed is absent,
\* generate_matched_sdp does not return a successful description.
C17_UnparsedRemoteFails ==
    (sdp_ret.op = "generate_matched_sdp" /\ sdp_ret.remote.parsed = None) =>
        sdp_ret.err # Ok

\* the transceivers a section of the last call refers to
BackingTransceivers ==
    { Unwrap(Sections[i].transceiver) :
        i \in { j \in 1..Len(Sections) : IsSome(Sections[j].transceiver) } }

\* the transceivers whose sender the last call marked negotiated
MarkedTransceivers ==
    { k \in 1..Len(sdp_ret.ts_before) :
        local_transceivers[k].sender.negotiated /\ ~sdp_ret.ts_before[k].sender.negotiated }

DistinctMids(ts) == \A i, j \in 1..Len(ts) : ts[i].mid = ts[j].mid => i = j

C20_WitnessIncludeUnmatched ==
    /\ sdp_ret.op = "generate_matched_sdp" /\ sdp_ret.err = Ok
    /\ sdp_ret.include_unmatched
    /\ DistinctMids(sdp_ret.ts_before)
    /\ Len(RemoteIds) = 1 /\ Len(UnmatchedIds) = 1
    /\ MarkedTransceivers = { 1, 2 }

(***************************************************************************)
(* Claims on the interceptor Registry.                                     *)
(***************************************************************************)
\* the names of the stages of a chain, the outermost first
RECURSIVE StageNames(_)
StageNames(stage) ==
    << stage.name >> \o (IF IsSome(stage.next) THEN StageNames(Unwrap(stage.next)) ELSE << >>)

\* the ids the stages of a chain were built with (NoOp has none)
RECURSIVE StageIds(_)
StageIds(stage) ==
    (IF stage.name = "NoOp" THEN {} ELSE { stage.id })
        \cup (IF IsSome(stage.next) THEN StageIds(Unwrap(stage.next)) ELSE {})

\* C21: Registry.build calls the build of each registered builder exactly once
\* and nests the stages in registration order, the stage of the first builder
\* outermost and NoOp innermost; with no builder the result is NoOp, whose read,
\* write and handle_timeout return no event.
C21_BuildNestsInRegistrationOrder ==
    IsSome(reg.stage) =>
        /\ Len(reg.log) = Len(reg.built_from)
        /\ \A k \in 1..Len(reg.built_from) :
               Cardinality({ j \in 1..Len(reg.log) : reg.log[j] = k }) = 1
        /\ StageNames(Unwrap(reg.stage)) = reg.built_from \o << "NoOp" >>
        /\ StageIds(Unwrap(reg.stage)) \subseteq { reg.id }
        /\ reg.built_from = << >> => Unwrap(reg.stage) = NoOp
        /\ (Unwrap(reg.stage) = NoOp /\ reg.op \in { "read", "write", "handle_timeout" })
               => reg.events = << >>

\* C21 witness: nack, report and twcc registered in this order and built
C21_Witness ==
    /\ reg.op = "build"
    /\ reg.built_from = << "nack", "report", "twcc" >>
    /\ StageNames(Unwrap(reg.stage)) = << "nack", "report", "twcc", "NoOp" >>
    /\ reg.log = << 3, 2, 1 >>

\* C21 witness: a read on the stage built from an empty Registry
C21_WitnessNoOp ==
    /\ reg.op = "read"
    /\ reg.built_from = << >>
    /\ reg.stage = Some(NoOp)
    /\ reg.events = << >>

(***************************************************************************)
(* Claims on the mids, the candidates and the failed calls of the matcher. *)
(***************************************************************************)
\* the remote media descriptions that carry a mid carry different ones
DistinctRemoteMids ==
    \A i, j \in 1..Len(RemoteSeq) :
        (/\ IsSome(get_mid_value(RemoteSeq[i]))
         /\ get_mid_value(RemoteSeq[i]) = get_mid_value(RemoteSeq[j])) => i = j

\* the mids the group attribute of the returned description lists, in order
BundleSeq ==
    IF GroupAttributes = << >> THEN << >>
    ELSE LET v == Unwrap(GroupAttributes[1].value)
         IN [i \in 1..((Len(v) - 1) \div 2) |-> << v[2 * i + 1] >>]

\* C22 (as claimed): when the remote mids differ from one another and the local
\* transceivers' mids differ from one another, the mids of the media sections
\* of the description generate_matched_sdp returns are pairwise distinct, and so
\* are the mids of its BUNDLE group.
C22_MidsPairwiseDistinct ==
    (/\ sdp_ret.op = "generate_matched_sdp" /\ sdp_ret.err = Ok
     /\ DistinctRemoteMids /\ DistinctMids(sdp_ret.ts_before)) =>
        /\ \A i, j \in 1..Len(OutMedia) :
               (/\ IsSome(get_mid_value(OutMedia[i]))
                /\ get_mid_value(OutMedia[i]) = get_mid_value(OutMedia[j])) => i = j
        /\ \A i, j \in 1..Len(BundleSeq) : BundleSeq[i] = BundleSeq[j] => i = j

\* the media block embeds the local host candidate (RTP and RTCP lines) and the
\* end-of-candidates marker
HoldsCandidates(media) ==
    { CandidateLine("1"), CandidateLine("2"), EndOfCandidates } \subseteq Range(media.attributes)

\* C23 (as claimed): a description populate_sdp returns with at least one
\* data-channel or non-rejected transceiver section embeds the local host
\* candidate and the end-of-candidates marker in exactly one media section,
\* also when the section of index 0 is a rejected one.
C23_CandidatesInExactlyOneSection ==
    (/\ sdp_ret.op = "populate_sdp" /\ sdp_ret.err = Ok
     /\ \E i \in 1..Len(Sections) : IsIncluded(Sections[i])) =>
        Cardinality({ i \in 1..Len(OutMedia) : HoldsCandidates(OutMedia[i]) }) = 1

\* C24 (as claimed): a generate_matched_sdp call that returns an error leaves
\* the local transceivers as they were: no sender was marked negotiated by it.
C24_FailedCallMarksNothing ==
    (sdp_ret.op = "generate_matched_sdp" /\ sdp_ret.err # Ok) =>
        local_transceivers = sdp_ret.ts_before

=============================================================================
